---- MODULE Spec2Model ----
(***************************************************************************)
(* Model of maze.py: the Node / StackFrontier / QueueFrontier classes and  *)
(* the Maze class with its neighbors and solve methods.                    *)
(*                                                                         *)
(* Node objects live in an arena `nodes`; a node reference is its index    *)
(* in the arena and the reference None is 0.  The Python list              *)
(* self.frontier is the sequence `frontier` of node references.            *)
(***************************************************************************)
EXTENDS Integers, Sequences, FiniteSets, TLC

VARIABLES
    height,        \* Maze.height
    width,         \* Maze.width
    walls,         \* Maze.walls, walls[r][c], rows and columns from 0
    start,         \* Maze.start
    goal,          \* Maze.goal
    solution,      \* Maze.solution: None or the pair (actions, cells)
    num_explored,  \* Maze.num_explored
    explored,      \* Maze.explored
    nodes,         \* the Node objects created so far
    kind,          \* class of the frontier object: "stack" or "queue"
    frontier,      \* StackFrontier.frontier
    pc,            \* where the caller of solve / of the frontier stands
    ret,           \* outcome of the last call made on the frontier or on neighbors
    addLog,        \* history: node references passed to add, in call order
    removeLog,     \* history: node references returned by remove, in call order
    prev           \* history: what the Maze object held when solve was last called

gridVars == <<height, width, walls, start, goal>>
vars == <<height, width, walls, start, goal, solution, num_explored, explored,
          nodes, kind, frontier, pc, ret, addLog, removeLog, prev>>

\* ------------------------------------------------------------------ bounds
MaxHeight == 4
MaxWidth == 4
MaxCells == 8
MaxAdds == 4
MaxCol == 1
MaxText == 6

\* ------------------------------------------------------------------ values
None == 0
NoSolution == <<>>
NoAction == "none"
NoArg == <<>>

\* what a call gave back: the node returned by remove, the boolean returned by
\* contains_state or empty, the list returned by neighbors, or a raised exception
Ret(op, arg, node, value, list, raised) ==
    [op |-> op, arg |-> arg, node |-> node, value |-> value, list |-> list,
     raised |-> raised]

NoRet == Ret("none", NoArg, None, FALSE, <<>>, FALSE)

\* class Node
Node(state, parent, action) == [state |-> state, parent |-> parent, action |-> action]

\* ------------------------------------------------------- frontier classes
\* StackFrontier.__init__
EmptyFrontier == <<>>

\* StackFrontier.add
Add(f, n) == Append(f, n)

ContainsState_Never(ns, f, state) == FALSE

ContainsState_LastOnly(ns, f, state) == Len(f) > 0 /\ ns[f[Len(f)]].state = state

ContainsState_FirstOnly(ns, f, state) == Len(f) > 0 /\ ns[f[1]].state = state

\* StackFrontier.contains_state
ContainsState(ns, f, state) == \E i \in 1..Len(f) : ns[f[i]].state = state

\* StackFrontier.empty
Empty(f) == Len(f) = 0

StackRemove_PopFirst(f) == [node |-> f[1], frontier |-> SubSeq(f, 2, Len(f))]

\* StackFrontier.remove, the non-empty branch: list.pop()
StackRemove(f) == [node |-> f[Len(f)], frontier |-> SubSeq(f, 1, Len(f) - 1)]

QueueRemove_PopLast(f) == [node |-> f[Len(f)], frontier |-> SubSeq(f, 1, Len(f) - 1)]

\* QueueFrontier.remove, the non-empty branch: list.pop(0)
QueueRemove(f) == [node |-> f[1], frontier |-> SubSeq(f, 2, Len(f))]

\* dynamic dispatch of frontier.remove() on the class of the object
Remove(k, f) == IF k = "queue" THEN QueueRemove(f) ELSE StackRemove(f)

\* ------------------------------------------------------------------- Maze
Rows == 0..(height - 1)
Cols == 0..(width - 1)
Cells == Rows \X Cols

Candidates_NoLeft(state) ==
    LET row == state[1]
        col == state[2]
    IN << <<"up", <<row - 1, col>> >>,
          <<"down", <<row + 1, col>> >>,
          <<"right", <<row, col + 1>> >> >>

\* Maze.neighbors: the list of candidate moves
Candidates(state) ==
    LET row == state[1]
        col == state[2]
    IN << <<"up", <<row - 1, col>> >>,
          <<"down", <<row + 1, col>> >>,
          <<"left", <<row, col - 1>> >>,
          <<"right", <<row, col + 1>> >> >>

ValidMove_WallsIgnored(cand) ==
    LET r == cand[2][1]
        c == cand[2][2]
    IN 0 <= r /\ r < height /\ 0 <= c /\ c < width

\* Maze.neighbors: the test of one candidate
ValidMove(cand) ==
    LET r == cand[2][1]
        c == cand[2][2]
    IN 0 <= r /\ r < height /\ 0 <= c /\ c < width /\ ~walls[r][c]

\* Maze.neighbors
Neighbors(state) == SelectSeq(Candidates(state), ValidMove)

RECURSIVE Collect_WithRoot(_, _)
Collect_WithRoot(ns, n) ==
    IF n = None THEN <<>>
    ELSE <<n>> \o Collect_WithRoot(ns, ns[n].parent)

\* Maze.solve: the path reconstruction loop, which walks the parent links from
\* the goal node and appends each node met before the root
RECURSIVE Collect(_, _)
Collect(ns, n) ==
    IF ns[n].parent = None THEN <<>>
    ELSE <<n>> \o Collect(ns, ns[n].parent)

\* list.reverse()
Reverse(s) == [i \in 1..Len(s) |-> s[Len(s) + 1 - i]]

Reconstruct_ActionsNotReversed(ns, n) ==
    LET path == Collect(ns, n)
        actions == [i \in 1..Len(path) |-> ns[path[i]].action]
        cells == [i \in 1..Len(path) |-> ns[path[i]].state]
    IN <<actions, Reverse(cells)>>

\* Maze.solve: the goal branch, building the pair (actions, cells)
Reconstruct(ns, n) ==
    LET path == Collect(ns, n)
        actions == [i \in 1..Len(path) |-> ns[path[i]].action]
        cells == [i \in 1..Len(path) |-> ns[path[i]].state]
    IN <<Reverse(actions), Reverse(cells)>>

Unseen_FrontierNotAsked(ns, f, expl, state) == state \notin expl

\* Maze.solve: the test that decides whether a neighbor becomes a child
Unseen(ns, f, expl, state) == ~ContainsState(ns, f, state) /\ state \notin expl

\* Maze.solve: the loop over the neighbors of the removed node; each new
\* child is created and added in turn, so a later neighbor is tested against
\* the frontier that already holds the earlier children
RECURSIVE AddChildren(_, _, _, _, _, _)
AddChildren(nbrs, ns, f, expl, parent, added) ==
    IF nbrs = <<>> THEN [nodes |-> ns, frontier |-> f, added |-> added]
    ELSE LET action == Head(nbrs)[1]
             state == Head(nbrs)[2]
             child == Len(ns) + 1
         IN IF Unseen(ns, f, expl, state)
            THEN AddChildren(Tail(nbrs), Append(ns, Node(state, parent, action)),
                             Add(f, child), expl, parent, Append(added, child))
            ELSE AddChildren(Tail(nbrs), ns, f, expl, parent, added)

\* --------------------------------------------------------------- Maze.solve
\* the attributes of the Maze object and the outcome of its last solve, as a
\* call of solve finds them
Snapshot(outcome, n, expl, sol) ==
    [called |-> outcome # "ready", outcome |-> outcome, num_explored |-> n,
     explored |-> expl, solution |-> sol]

NoPrev == Snapshot("ready", 0, {}, NoSolution)

FreshCounter_Kept == num_explored

\* Maze.solve: self.num_explored = 0
FreshCounter == 0

FreshExplored_Kept == explored

\* Maze.solve: self.explored = set()
FreshExplored == {}

FrontierClass_Queue == "queue"

\* Maze.solve: frontier = StackFrontier()
FrontierClass == "stack"

\* Maze.__init__ leaves a grid with one start and one goal cell, both open
GridInit ==
    /\ height \in 1..MaxHeight
    /\ width \in 1..MaxWidth
    /\ height * width <= MaxCells
    /\ walls \in [0..(height - 1) -> [0..(width - 1) -> BOOLEAN]]
    /\ start \in (0..(height - 1)) \X (0..(width - 1))
    /\ goal \in (0..(height - 1)) \X (0..(width - 1))
    /\ start # goal
    /\ ~walls[start[1]][start[2]]
    /\ ~walls[goal[1]][goal[2]]

Init ==
    /\ GridInit
    /\ solution = NoSolution
    /\ num_explored = 0
    /\ explored = {}
    /\ nodes = <<>>
    /\ kind = "stack"
    /\ frontier = EmptyFrontier
    /\ pc = "ready"
    /\ ret = NoRet
    /\ addLog = <<>>
    /\ removeLog = <<>>
    /\ prev = NoPrev

GridAfterExpand_CellWalled(state) ==
    <<height, width, [walls EXCEPT ![state[1]][state[2]] = TRUE], start, goal>>

\* Maze.solve: the loop body assigns to none of height, width, walls, start, goal
GridAfterExpand(state) == gridVars

\* solve is called (for the first time or again): the lines before the loop
SolveBegin ==
    /\ pc \in {"ready", "returned", "raised"}
    /\ num_explored' = FreshCounter
    /\ nodes' = <<Node(start, None, NoAction)>>
    /\ kind' = FrontierClass
    /\ frontier' = Add(EmptyFrontier, 1)
    /\ explored' = FreshExplored
    /\ addLog' = <<1>>
    /\ removeLog' = <<>>
    /\ prev' = Snapshot(pc, num_explored, explored, solution)
    /\ pc' = "loop"
    /\ UNCHANGED <<gridVars, solution, ret>>

\* one loop iteration that finds the frontier empty: raise Exception("no solution")
SolveNoSolution ==
    /\ pc = "loop"
    /\ Empty(frontier)
    /\ pc' = "raised"
    /\ UNCHANGED <<gridVars, solution, num_explored, explored, nodes, kind,
                   frontier, ret, addLog, removeLog, prev>>

\* one loop iteration that removes the goal node: reconstruct and return
SolveGoal ==
    /\ pc = "loop"
    /\ ~Empty(frontier)
    /\ LET r == Remove(kind, frontier)
       IN /\ nodes[r.node].state = goal
          /\ num_explored' = num_explored + 1
          /\ frontier' = r.frontier
          /\ removeLog' = Append(removeLog, r.node)
          /\ solution' = Reconstruct(nodes, r.node)
    /\ pc' = "returned"
    /\ UNCHANGED <<gridVars, explored, nodes, kind, ret, addLog, prev>>

\* one loop iteration that removes another node: mark it explored and add its
\* unseen neighbors
SolveExpand ==
    /\ pc = "loop"
    /\ ~Empty(frontier)
    /\ LET r == Remove(kind, frontier)
           state == nodes[r.node].state
           expl == explored \cup {state}
           e == AddChildren(Neighbors(state), nodes, r.frontier, expl, r.node, <<>>)
       IN /\ state # goal
          /\ num_explored' = num_explored + 1
          /\ removeLog' = Append(removeLog, r.node)
          /\ explored' = expl
          /\ nodes' = e.nodes
          /\ frontier' = e.frontier
          /\ addLog' = addLog \o e.added
          /\ height' = GridAfterExpand(state)[1]
          /\ width' = GridAfterExpand(state)[2]
          /\ walls' = GridAfterExpand(state)[3]
          /\ start' = GridAfterExpand(state)[4]
          /\ goal' = GridAfterExpand(state)[5]
    /\ UNCHANGED <<solution, kind, pc, ret, prev>>

SolveStep == SolveNoSolution \/ SolveGoal \/ SolveExpand

Next == SolveBegin \/ SolveNoSolution \/ SolveGoal \/ SolveExpand

Spec == Init /\ [][Next]_vars

\* solve runs to completion once called: single-threaded, no suspension point
FairSpec == Spec /\ WF_vars(SolveStep)

\* ------------------------------------------------- Maze.neighbors, called
\* a caller asks for the neighbors of any in-bounds state
NeighborsCall ==
    /\ \E state \in Cells : ret' = Ret("neighbors", state, None, FALSE, Neighbors(state), FALSE)
    /\ UNCHANGED <<gridVars, solution, num_explored, explored, nodes, kind,
                   frontier, pc, addLog, removeLog, prev>>

NeighborsNext == NeighborsCall

SpecNeighbors == Init /\ [][NeighborsNext]_vars

\* solve and neighbors called in any order on one Maze object
CallsNext == SolveBegin \/ SolveNoSolution \/ SolveGoal \/ SolveExpand \/ NeighborsCall

SpecCalls == Init /\ [][CallsNext]_vars

\* ------------------------------------------- the frontier classes, called
\* the states of the nodes the caller makes
FrontierStates == {0} \X (0..MaxCol)

\* a frontier object of either class, freshly constructed, beside a maze
FrontierInit ==
    /\ height = 1
    /\ width = MaxCol + 1
    /\ walls = [r \in 0..0 |-> [c \in 0..MaxCol |-> FALSE]]
    /\ start = <<0, 0>>
    /\ goal = <<0, MaxCol>>
    /\ solution = NoSolution
    /\ num_explored = 0
    /\ explored = {}
    /\ nodes = <<>>
    /\ kind \in {"stack", "queue"}
    /\ frontier = EmptyFrontier
    /\ pc = "ready"
    /\ ret = NoRet
    /\ addLog = <<>>
    /\ removeLog = <<>>
    /\ prev = NoPrev

frontierFrame ==
    <<height, width, walls, start, goal, solution, num_explored, explored, kind, pc, prev>>

\* add(Node(state, None, None))
FrontierAdd ==
    /\ Len(nodes) < MaxAdds
    /\ \E state \in FrontierStates :
           /\ nodes' = Append(nodes, Node(state, None, NoAction))
           /\ ret' = Ret("add", state, None, FALSE, <<>>, FALSE)
    /\ frontier' = Add(frontier, Len(nodes) + 1)
    /\ addLog' = Append(addLog, Len(nodes) + 1)
    /\ UNCHANGED <<frontierFrame, removeLog>>

\* remove() on a frontier that holds a node
FrontierRemove ==
    /\ ~Empty(frontier)
    /\ LET r == Remove(kind, frontier)
       IN /\ frontier' = r.frontier
          /\ ret' = Ret("remove", NoArg, r.node, FALSE, <<>>, FALSE)
          /\ removeLog' = Append(removeLog, r.node)
    /\ UNCHANGED <<frontierFrame, nodes, addLog>>

RemoveFromEmpty_ReturnsNone == Ret("remove", NoArg, None, FALSE, <<>>, FALSE)

\* StackFrontier.remove and QueueFrontier.remove, the empty branch
RemoveFromEmpty == Ret("remove", NoArg, None, FALSE, <<>>, TRUE)

\* remove() on an empty frontier: raise Exception("empty frontier")
FrontierRemoveEmpty ==
    /\ Empty(frontier)
    /\ ret' = RemoveFromEmpty
    /\ UNCHANGED <<frontierFrame, nodes, frontier, addLog, removeLog>>

\* contains_state(state)
FrontierContains ==
    /\ \E state \in FrontierStates :
           ret' = Ret("contains_state", state, None, ContainsState(nodes, frontier, state), <<>>, FALSE)
    /\ UNCHANGED <<frontierFrame, nodes, frontier, addLog, removeLog>>

\* empty()
FrontierEmpty ==
    /\ ret' = Ret("empty", NoArg, None, Empty(frontier), <<>>, FALSE)
    /\ UNCHANGED <<frontierFrame, nodes, frontier, addLog, removeLog>>

FrontierNext ==
    FrontierAdd \/ FrontierRemove \/ FrontierRemoveEmpty \/ FrontierContains \/ FrontierEmpty

SpecFrontier == FrontierInit /\ [][FrontierNext]_vars

\* ------------------------------------------------------ Maze.__init__
\* the characters of a maze file: start, goal, wall, floor and line end
Chars == {"A", "B", "#", " ", "\n"}

\* the file contents a Maze is built from
Texts == UNION {[1..n -> Chars] : n \in 0..MaxText}

\* str.count of one character
CountChar(text, ch) == Cardinality({i \in 1..Len(text) : text[i] = ch})

ValidMarkers_ManyAllowed(text) == CountChar(text, "A") >= 1 /\ CountChar(text, "B") >= 1

\* Maze.__init__: the two tests that raise when a marker is missing or repeated
ValidMarkers(text) == CountChar(text, "A") = 1 /\ CountChar(text, "B") = 1

\* str.splitlines: a line ends at each line end, and no empty line follows
\* the last line end
RECURSIVE SplitFrom(_, _, _, _)
SplitFrom(text, i, cur, acc) ==
    IF i > Len(text) THEN (IF cur = <<>> THEN acc ELSE Append(acc, cur))
    ELSE IF text[i] = "\n" THEN SplitFrom(text, i + 1, <<>>, Append(acc, cur))
    ELSE SplitFrom(text, i + 1, Append(cur, text[i]), acc)

SplitLines(text) == SplitFrom(text, 1, <<>>, <<>>)

\* max(len(line) for line in contents)
MaxLineLen(lines) ==
    CHOOSE n \in {Len(lines[i]) : i \in 1..Len(lines)} :
        \A i \in 1..Len(lines) : Len(lines[i]) <= n

\* Maze.__init__: the value appended to the row for cell (i, j); a column past
\* the end of the line raises IndexError and gives False
WallFlag(lines, i, j) ==
    IF j < Len(lines[i + 1]) THEN lines[i + 1][j + 1] = "#" ELSE FALSE

\* Maze.__init__: the cell that the loop last assigns to self.start or self.goal
MarkerCell(lines, ch) ==
    LET marked == {p \in (0..(Len(lines) - 1)) \X (0..(MaxLineLen(lines) - 1)) :
                      p[2] < Len(lines[p[1] + 1]) /\ lines[p[1] + 1][p[2] + 1] = ch}
    IN CHOOSE p \in marked :
           \A q \in marked : q[1] < p[1] \/ (q[1] = p[1] /\ q[2] <= p[2])

\* no Maze object has been constructed yet
ParseInit ==
    /\ height = 0
    /\ width = 0
    /\ walls = <<>>
    /\ start = <<>>
    /\ goal = <<>>
    /\ solution = NoSolution
    /\ num_explored = 0
    /\ explored = {}
    /\ nodes = <<>>
    /\ kind = "stack"
    /\ frontier = EmptyFrontier
    /\ pc = "unbuilt"
    /\ ret = NoRet
    /\ addLog = <<>>
    /\ removeLog = <<>>
    /\ prev = NoPrev

\* Maze(filename) on a file with one start and one goal marker
MazeInitOk ==
    /\ pc = "unbuilt"
    /\ \E text \in Texts :
           /\ ValidMarkers(text)
           /\ LET lines == SplitLines(text)
              IN /\ height' = Len(lines)
                 /\ width' = MaxLineLen(lines)
                 /\ walls' = [i \in 0..(Len(lines) - 1) |->
                                [j \in 0..(MaxLineLen(lines) - 1) |-> WallFlag(lines, i, j)]]
                 /\ start' = MarkerCell(lines, "A")
                 /\ goal' = MarkerCell(lines, "B")
           /\ ret' = Ret("Maze", text, None, FALSE, <<>>, FALSE)
    /\ solution' = NoSolution
    /\ pc' = "ready"
    /\ UNCHANGED <<num_explored, explored, nodes, kind, frontier, addLog, removeLog, prev>>

\* Maze(filename) on any other file: raise Exception("maze must have exactly one ...")
MazeInitRaise ==
    /\ pc = "unbuilt"
    /\ \E text \in Texts :
           /\ ~ValidMarkers(text)
           /\ ret' = Ret("Maze", text, None, FALSE, <<>>, TRUE)
    /\ pc' = "rejected"
    /\ UNCHANGED <<gridVars, solution, num_explored, explored, nodes, kind, frontier,
                   addLog, removeLog, prev>>

\* main: build the maze from the file, then solve it
ParseNext ==
    MazeInitOk \/ MazeInitRaise \/ SolveBegin \/ SolveNoSolution \/ SolveGoal \/ SolveExpand

SpecParse == ParseInit /\ [][ParseNext]_vars

\* ------------------------------------------------- vocabulary of the claims
\* the move each action name stands for
Delta(action) ==
    CASE action = "up" -> <<-1, 0>>
      [] action = "down" -> <<1, 0>>
      [] action = "left" -> <<0, -1>>
      [] action = "right" -> <<0, 1>>
      [] OTHER -> <<0, 0>>

Shift(cell, action) == <<cell[1] + Delta(action)[1], cell[2] + Delta(action)[2]>>

Abs(x) == IF x < 0 THEN -x ELSE x

Adjacent(a, b) == Abs(a[1] - b[1]) + Abs(a[2] - b[2]) = 1

OpenCells == {c \in Cells : ~walls[c[1]][c[2]]}

\* the open cells a sequence of cardinal moves through open cells leads to
RECURSIVE Closure(_)
Closure(S) ==
    LET T == S \cup {c \in OpenCells : \E s \in S : Adjacent(s, c)}
    IN IF T = S THEN S ELSE Closure(T)

ReachableFromStart == Closure({start})

Ended == pc \in {"returned", "raised"}

StatesOf(log) == [i \in 1..Len(log) |-> nodes[log[i]].state]

Distinct(seq) == \A i, j \in 1..Len(seq) : i # j => seq[i] # seq[j]

\* ------------------------------------------------------------------ claims
\* C1: when the goal cannot be reached from the start, solve gives its caller
\* a no-solution outcome and never lets an exception leave solve.
C1_NoSolutionIsReturned == (goal \notin ReachableFromStart) => pc # "raised"

\* C2: when solve has returned, actions and cells have the same length and
\* each cell is the cell before it shifted by the action paired with it.
C2_SolutionIsWalk ==
    pc = "returned" =>
        /\ Len(solution) = 2
        /\ Len(solution[1]) = Len(solution[2])
        /\ \A i \in 1..(Len(solution[2]) - 1) :
               solution[2][i + 1] = Shift(solution[2][i], solution[1][i + 1])

C2_Witness ==
    /\ pc = "returned"
    /\ Len(solution[2]) >= 4
    /\ \E i \in 1..(Len(solution[1]) - 1) : solution[1][i] # solution[1][i + 1]

\* C3: when solve has returned, the cells read start to goal without the
\* start: the start is not among them, the first is the start shifted by the
\* first action and the last is the goal.
C3_StartExclusiveGoalInclusive ==
    pc = "returned" =>
        LET actions == solution[1]
            cells == solution[2]
        IN /\ Len(cells) >= 1
           /\ \A i \in 1..Len(cells) : cells[i] # start
           /\ cells[1] = Shift(start, actions[1])
           /\ cells[Len(cells)] = goal

C3_Witness == pc = "returned" /\ Len(solution[2]) >= 3

\* C4: every run of solve ends, and the number of nodes removed never exceeds
\* the number of open cells reachable from the start.
C4_TerminatesWithinReachable ==
    /\ (pc = "loop") ~> Ended
    /\ [](num_explored <= Cardinality(ReachableFromStart))

C4_Witness ==
    /\ pc = "raised"
    /\ num_explored = Cardinality(ReachableFromStart)
    /\ num_explored >= 4

\* C5: over one run of solve no state is added to the frontier twice and no
\* state is removed from it twice.
C5_AddedAndRemovedOnce ==
    /\ Distinct(StatesOf(addLog))
    /\ Distinct(StatesOf(removeLog))

C5_Witness ==
    /\ Ended
    /\ Len(removeLog) >= 4
    /\ \E i \in 1..Len(addLog) :
           Cardinality({c \in OpenCells : Adjacent(c, nodes[addLog[i]].state)
                                           /\ c \in explored}) >= 2

\* C10: when the start is next to the goal, solve returns a solution of
\* length 1 whose action takes the start to the goal.
C10_AdjacentGoalLengthOne ==
    (Adjacent(start, goal) /\ Ended) =>
        /\ pc = "returned"
        /\ Len(solution[1]) = 1
        /\ Len(solution[2]) = 1
        /\ Shift(start, solution[1][1]) = goal
        /\ solution[2][1] = goal

C10_Witness == Adjacent(start, goal) /\ pc = "returned" /\ num_explored >= 4

\* the node references the frontier was given and has not given back
Held == {addLog[i] : i \in 1..Len(addLog)} \ {removeLog[i] : i \in 1..Len(removeLog)}

\* position in addLog of a held node
AddedAt(n) == CHOOSE i \in 1..Len(addLog) : addLog[i] = n

MostRecentHeld == CHOOSE n \in Held : \A m \in Held : AddedAt(m) <= AddedAt(n)

EarliestHeld == CHOOSE n \in Held : \A m \in Held : AddedAt(n) <= AddedAt(m)

Without(f, n) == SelectSeq(f, LAMBDA x : x # n)

RemoveHappened == Len(removeLog') = Len(removeLog) + 1

LastRemoved == removeLog[Len(removeLog)]

ActionRank(action) ==
    CASE action = "up" -> 1
      [] action = "down" -> 2
      [] action = "left" -> 3
      [] action = "right" -> 4
      [] OTHER -> 0

\* C6: neighbors(state) returns exactly the candidates up, down, left, right
\* of state that are in bounds and not walls, in that relative order.
C6_NeighborsExactAndOrdered ==
    ret.op = "neighbors" =>
        LET s == ret.arg
            res == ret.list
        IN /\ \A i \in 1..Len(res) :
                  /\ res[i][1] \in {"up", "down", "left", "right"}
                  /\ res[i][2] = Shift(s, res[i][1])
                  /\ res[i][2] \in Cells
                  /\ ~walls[res[i][2][1]][res[i][2][2]]
           /\ \A a \in {"up", "down", "left", "right"} :
                  Shift(s, a) \in OpenCells => \E i \in 1..Len(res) : res[i] = <<a, Shift(s, a)>>
           /\ \A i, j \in 1..Len(res) :
                  i < j => ActionRank(res[i][1]) < ActionRank(res[j][1])

C6_Witness ==
    /\ ret.op = "neighbors"
    /\ Len(ret.list) = 2
    /\ \E a \in {"up", "down", "left", "right"} : Shift(ret.arg, a) \notin Cells
    /\ \E a \in {"up", "down", "left", "right"} :
           Shift(ret.arg, a) \in Cells /\ Shift(ret.arg, a) \notin OpenCells

\* C7: on a StackFrontier, remove() returns and deletes the most recently
\* added node still present and leaves the other nodes in their order.
C7_StackRemovesMostRecent ==
    [][(kind = "stack" /\ RemoveHappened) =>
          /\ ret'.node = MostRecentHeld
          /\ removeLog'[Len(removeLog')] = MostRecentHeld
          /\ frontier' = Without(frontier, MostRecentHeld)
          /\ Len(frontier') = Len(frontier) - 1]_vars

C7_Witness ==
    /\ kind = "stack"
    /\ ret.op = "remove"
    /\ ~ret.raised
    /\ Len(removeLog) >= 2
    /\ Len(frontier) >= 1
    /\ LastRemoved # addLog[Len(addLog)]
    /\ \E i \in 1..Len(removeLog) : removeLog[i] < frontier[Len(frontier)]

\* C8: on a QueueFrontier, remove() returns and deletes the earliest added
\* node still present and leaves the other nodes in their order.
C8_QueueRemovesEarliest ==
    [][(kind = "queue" /\ RemoveHappened) =>
          /\ ret'.node = EarliestHeld
          /\ removeLog'[Len(removeLog')] = EarliestHeld
          /\ frontier' = Without(frontier, EarliestHeld)
          /\ Len(frontier') = Len(frontier) - 1]_vars

C8_Witness ==
    /\ kind = "queue"
    /\ ret.op = "remove"
    /\ ~ret.raised
    /\ Len(removeLog) >= 2
    /\ Len(frontier) >= 1
    /\ LastRemoved # addLog[1]
    /\ Len(frontier) >= 2

\* C9: for both frontier classes contains_state(s) is true exactly when a
\* node the frontier currently holds has state s.
C9_ContainsStateIffHeld ==
    /\ \A s \in FrontierStates :
           ContainsState(nodes, frontier, s) <=> \E n \in Held : nodes[n].state = s
    /\ ret.op = "contains_state" =>
           (ret.value <=> \E n \in Held : nodes[n].state = ret.arg)
    /\ ret.op = "add" => ContainsState(nodes, frontier, ret.arg)

C9_Witness ==
    /\ kind = "queue"
    /\ ret.op = "contains_state"
    /\ ~ret.value
    /\ \E i \in 1..Len(removeLog) : nodes[removeLog[i]].state = ret.arg
    /\ Len(frontier) >= 2

\* C11: a second run of solve on the same Maze object ends with the same
\* outcome, the same num_explored, the same explored set and the same solution
\* as the run before it.
C11_RunsAgree ==
    (Ended /\ prev.called) =>
        /\ pc = prev.outcome
        /\ num_explored = prev.num_explored
        /\ explored = prev.explored
        /\ solution = prev.solution

C11_Witness ==
    /\ pc = "returned"
    /\ prev.called
    /\ prev.num_explored >= 4
    /\ Len(solution[2]) >= 2

\* C12: a call of solve starts from an empty explored set and a counter of 0
\* whatever the call before left, and while the loop runs the explored set
\* never loses a state and the counter never decreases.
C12_ResetThenGrow ==
    [][/\ (pc # "loop" /\ pc' = "loop") => (explored' = {} /\ num_explored' = 0)
       /\ pc = "loop" => (explored \subseteq explored' /\ num_explored' >= num_explored)]_vars

C12_Witness ==
    /\ pc = "loop"
    /\ prev.called
    /\ prev.num_explored >= 3
    /\ Cardinality(prev.explored) >= 3
    /\ Cardinality(explored) >= 2
    /\ num_explored >= 2

\* C13: no call of solve or of neighbors changes height, width, the wall
\* matrix, start or goal.
C13_GridUnchanged == [][gridVars' = gridVars]_vars

C13_Witness ==
    /\ Ended
    /\ prev.called
    /\ num_explored >= 3
    /\ ret.op = "neighbors"
    /\ Len(ret.list) >= 1

\* C14: remove() on an empty frontier of either class raises instead of
\* returning a node, and the frontier stays empty.
C14_RemoveOnEmptyRaises ==
    [][(Empty(frontier) /\ ret'.op = "remove" /\ ret' # ret) =>
          /\ ret'.raised
          /\ ret'.node = None
          /\ Empty(frontier')
          /\ removeLog' = removeLog]_vars

C14_Witness ==
    /\ kind = "queue"
    /\ ret.op = "remove"
    /\ ret.raised
    /\ Empty(frontier)
    /\ Len(removeLog) >= 2

\* the cell a character of the text lies in: its row is the number of line
\* ends before it, its column the number of characters since the last of them
IndexOf(text, ch) == CHOOSE i \in 1..Len(text) : text[i] = ch

CellOfIndex(text, i) ==
    LET ends == {k \in 1..(i - 1) : text[k] = "\n"}
        last == IF ends = {} THEN 0 ELSE CHOOSE k \in ends : \A m \in ends : m <= k
    IN <<Cardinality(ends), i - last - 1>>

\* C15: construction raises exactly when the text does not hold one 'A' and
\* one 'B', and then no Maze exists for solve; when it succeeds, start and goal
\* are the cells of the markers and are not walls.
C15_ConstructionChecksMarkers ==
    ret.op = "Maze" =>
        LET text == ret.arg
            one == CountChar(text, "A") = 1 /\ CountChar(text, "B") = 1
        IN /\ ~one => (ret.raised /\ pc = "rejected")
           /\ one => /\ ~ret.raised
                     /\ pc \in {"ready", "loop", "returned", "raised"}
                     /\ start = CellOfIndex(text, IndexOf(text, "A"))
                     /\ goal = CellOfIndex(text, IndexOf(text, "B"))
                     /\ start \in Cells
                     /\ goal \in Cells
                     /\ ~walls[start[1]][start[2]]
                     /\ ~walls[goal[1]][goal[2]]

C15_Witness ==
    /\ ret.op = "Maze"
    /\ ~ret.raised
    /\ pc = "returned"
    /\ height >= 2
    /\ width >= 2
    /\ \E c \in Cells : walls[c[1]][c[2]]
    /\ Len(ret.arg) < height * (width + 1) - 1

\* C16: solve returns a solution exactly when the goal can be reached from
\* the start through open cells; otherwise it ends with no solution, an empty
\* frontier and the solution it had before the call.
C16_SolvedIffReachable ==
    Ended =>
        /\ pc = "returned" <=> goal \in ReachableFromStart
        /\ pc = "raised" => (Empty(frontier) /\ solution = prev.solution)

C16_Witness ==
    /\ pc = "raised"
    /\ num_explored >= 4
    /\ \E c \in OpenCells : Adjacent(c, goal)
    /\ Cardinality(OpenCells \ ReachableFromStart) >= 2

FrontierStatesNow == StatesOf(frontier)

\* C17: while solve runs no two frontier nodes have the same state, no
\* frontier node has an explored state, and every state in the frontier or in
\* the explored set is an open cell of the grid.
C17_FrontierAndExploredDisjoint ==
    pc \in {"loop", "returned", "raised"} =>
        /\ Distinct(FrontierStatesNow)
        /\ \A i \in 1..Len(frontier) : FrontierStatesNow[i] \notin explored
        /\ \A i \in 1..Len(frontier) : FrontierStatesNow[i] \in OpenCells
        /\ explored \subseteq OpenCells

C17_Witness ==
    /\ pc = "loop"
    /\ Len(frontier) >= 3
    /\ Cardinality(explored) >= 3
    /\ \E i \in 1..Len(frontier) :
           Cardinality({c \in explored : Adjacent(c, FrontierStatesNow[i])}) >= 2

ChildrenOf(p) == {k \in 1..Len(nodes) : nodes[k].parent = p}

\* C18: solve removes nodes last in, first out: every node removed is the
\* most recently added one still held, so after an expansion that added
\* children the next node removed is the child of the last valid move.
C18_SolveIsLifo ==
    [][RemoveHappened =>
          LET n == removeLog'[Len(removeLog')]
          IN /\ n = MostRecentHeld
             /\ (Len(removeLog) > 0 /\ ChildrenOf(LastRemoved) # {}) =>
                    /\ n \in ChildrenOf(LastRemoved)
                    /\ \A k \in ChildrenOf(LastRemoved) :
                           ActionRank(nodes[k].action) <= ActionRank(nodes[n].action)]_vars

C18_Witness ==
    /\ pc = "loop"
    /\ Len(removeLog) >= 4
    /\ \E i \in 1..(Len(removeLog) - 1) :
           nodes[removeLog[i + 1]].parent # removeLog[i]
    /\ \E i \in 1..(Len(removeLog) - 1) :
           /\ nodes[removeLog[i + 1]].parent = removeLog[i]
           /\ Cardinality(ChildrenOf(removeLog[i])) >= 2

\* C19: at the head of each loop iteration num_explored is the size of the
\* explored set, and when solve returns a solution it is that size plus one.
C19_CounterMatchesExplored ==
    /\ pc = "loop" => num_explored = Cardinality(explored)
    /\ pc = "returned" => num_explored = Cardinality(explored) + 1

C19_Witness ==
    /\ pc = "returned"
    /\ num_explored >= 5
    /\ Len(solution[2]) < Cardinality(explored)

\* C20: a returned solution is a simple path of open cells: no cell occurs
\* twice, every cell is an open cell of the grid, and every cell but the last
\* is in the explored set.
C20_SolutionIsSimpleOpenPath ==
    pc = "returned" =>
        LET cells == solution[2]
        IN /\ Distinct(cells)
           /\ \A i \in 1..Len(cells) : cells[i] \in OpenCells
           /\ \A i \in 1..(Len(cells) - 1) : cells[i] \in explored
           /\ cells[Len(cells)] \notin explored

C20_Witness ==
    /\ pc = "returned"
    /\ Len(solution[2]) >= 4
    /\ \E c \in Cells : walls[c[1]][c[2]]
    /\ Cardinality(explored) > Len(solution[2])

====
